---- MODULE Spec2Model ----
(***************************************************************************)
(* A model of the batch loader of src/src/lib/batch.ts.                    *)
(*                                                                         *)
(* One loader instance (one call of batch()): its cache, its in-flight     *)
(* map and its queue, the microtasks it has scheduled, and one record per  *)
(* run of dispatch().  A step of the model is one run-to-completion job of *)
(* the JavaScript event loop: a synchronous call of the loader, one run of *)
(* dispatch(), one run of a settlement handler of the batcher's promise,   *)
(* or the continuation of resolveLoaders() after its await.                *)
(***************************************************************************)
EXTENDS Integers, Sequences, FiniteSets, TLC

\* Total number of loader calls made in one behaviour.
MaxCalls == 3

\* Entries a host holds in a cache map it supplied, at any one time.
MaxHostWrites == 1

Keys == {"a", "b"}

\* JavaScript's undefined: what Map.get and an array index past the end yield.
Undefined == <<>>

\* The batcher is the user's: the value its invocation of round r returns for
\* key k and the error that invocation fails with are told apart from those of
\* every other invocation.
ValueOf(r, k) == <<r, k>>
ErrorOf(r) == <<"error", r>>

VARIABLES
    cache,       \* state.cache: key -> value, on the keys it has
    inflight,    \* state.inflight: key -> the batch promise (the round that made it)
    queue,       \* state.queue: the ids of the queued calls, in insertion order
    scheduled,   \* number of dispatch microtasks queued and not yet run
    calls,       \* every loader call made: its key and the continuations invoked on it
    rounds,      \* one record per run of dispatch(), in the order they ran
    onBatchSet   \* whether options.onBatch was given

vars == <<cache, inflight, queue, scheduled, calls, rounds, onBatchSet>>

Range(s) == {s[i] : i \in 1..Len(s)}

EmptyMap == [k \in {} |-> Undefined]

\* Map.prototype.has / Map.prototype.get
Has(m, k) == k \in DOMAIN m
Get(m, k) == IF k \in DOMAIN m THEN m[k] ELSE Undefined

\* Array.from(queue.values(), (q) => q.key)
RequestedKeys(cs, q) == [i \in 1..Len(q) |-> cs[q[i]].key]

\* Array.from(new Set(requestedKeys)): first occurrences, in order
RECURSIVE Dedupe(_)
Dedupe(s) ==
    IF s = <<>> THEN <<>>
    ELSE LET front == Dedupe(SubSeq(s, 1, Len(s) - 1))
             last == s[Len(s)]
         IN IF last \in Range(front) THEN front ELSE Append(front, last)

\* the filter callback's first branch: the keys added to cachedKeys
CachedKeys(req, c) ==
    LET Test(k) == Has(c, k) IN SelectSeq(Dedupe(req), Test)

InflightKeysNoCacheCheck(req, c, inf) ==
    LET Test(k) == Has(inf, k) IN SelectSeq(Dedupe(req), Test)

\* the filter callback's second branch: the keys added to inflightKeys
InflightKeys(req, c, inf) ==
    LET Test(k) == ~Has(c, k) /\ Has(inf, k) IN SelectSeq(Dedupe(req), Test)

BatchedKeysIgnoreInflight(req, c, inf) ==
    LET Test(k) == ~Has(c, k) IN SelectSeq(Dedupe(req), Test)

BatchedKeysIgnoreCache(req, c, inf) ==
    LET Test(k) == ~Has(inf, k) IN SelectSeq(Dedupe(req), Test)

BatchedKeysNoDedupe(req, c, inf) ==
    LET Test(k) == ~Has(c, k) /\ ~Has(inf, k) IN SelectSeq(req, Test)

\* the keys the filter keeps
BatchedKeys(req, c, inf) ==
    LET Test(k) == ~Has(c, k) /\ ~Has(inf, k) IN SelectSeq(Dedupe(req), Test)

OnBatchInfoOnlyWhenBatching(set, req, cached, infl, batched) ==
    IF set /\ batched # <<>>
    THEN << [requestedKeys |-> req, cachedKeys |-> cached,
             inflightKeys |-> infl, batchedKeys |-> batched] >>
    ELSE <<>>

\* if (options.onBatch) options.onBatch({...}): the records handed to it
OnBatchInfo(set, req, cached, infl, batched) ==
    IF set
    THEN << [requestedKeys |-> req, cachedKeys |-> cached,
             inflightKeys |-> infl, batchedKeys |-> batched] >>
    ELSE <<>>

\* awaitInflight(): the promises collected for the keys of the round's calls
AwaitInflight(cs, q, inf) ==
    {inf[cs[q[i]].key] : i \in {j \in 1..Len(q) : Has(inf, cs[q[j]].key)}}

ClearInflightNoop(inf, bk) == inf

\* clearInflight(): state.inflight.delete(key) for every batched key
ClearInflight(inf, bk) == [k \in DOMAIN inf \ Range(bk) |-> inf[k]]

SetInflightFirstOnly(inf, bk, p) ==
    [k \in DOMAIN inf \cup {bk[i] : i \in 1..Len(bk) \cap {1}} |->
        IF bk # <<>> /\ k = bk[1] THEN p ELSE inf[k]]

\* for (let key of batchedKeys) state.inflight.set(key, batchPromise)
SetInflight(inf, bk, p) ==
    [k \in DOMAIN inf \cup Range(bk) |-> IF k \in Range(bk) THEN p ELSE inf[k]]

IndexOf(s, x) == CHOOSE i \in 1..Len(s) : s[i] = x

\* batchResults[index], index counted from 1 here
ArrayAt(items, i) == IF i \in 1..Len(items) THEN items[i] ELSE Undefined

\* batchResults.get(key) on a Map held as its entries in insertion order
MapGet(entries, k) ==
    IF \E i \in 1..Len(entries) : entries[i][1] = k
    THEN entries[CHOOSE i \in 1..Len(entries) : entries[i][1] = k][2]
    ELSE Undefined

CacheResultsSkipMissing(c, bk, res) ==
    LET given == {k \in Range(bk) :
                     IF res.type = "array" THEN IndexOf(bk, k) \in 1..Len(res.items)
                     ELSE \E i \in 1..Len(res.entries) : res.entries[i][1] = k}
    IN [k \in DOMAIN c \cup given |->
           IF k \in given
           THEN IF res.type = "array" THEN ArrayAt(res.items, IndexOf(bk, k))
                ELSE MapGet(res.entries, k)
           ELSE c[k]]

CacheResultsReplace(c, bk, res) ==
    [k \in Range(bk) |->
        IF res.type = "array" THEN ArrayAt(res.items, IndexOf(bk, k))
        ELSE MapGet(res.entries, k)]

CacheResultsPositional(c, bk, res) ==
    [k \in DOMAIN c \cup Range(bk) |->
        IF k \in Range(bk)
        THEN IF IndexOf(bk, k) \in 1..(Len(res.items) + Len(res.entries))
             THEN IF res.type = "array" THEN res.items[IndexOf(bk, k)]
                  ELSE res.entries[IndexOf(bk, k)][2]
             ELSE Undefined
        ELSE c[k]]

\* cacheResults(): by index for an array, by key for a Map
CacheResults(c, bk, res) ==
    [k \in DOMAIN c \cup Range(bk) |->
        IF k \in Range(bk)
        THEN IF res.type = "array" THEN ArrayAt(res.items, IndexOf(bk, k))
             ELSE MapGet(res.entries, k)
        ELSE c[k]]

Resolved(v) == [kind |-> "resolve", with |-> v]
Rejected(e) == [kind |-> "reject", with |-> e]

ResolveLoadersAll(cs, q, c) ==
    [i \in 1..Len(cs) |->
        [cs[i] EXCEPT !.outcomes = Append(@, Resolved(Get(c, cs[i].key)))]]

ResolveLoadersCachedOnly(cs, q, c) ==
    [i \in 1..Len(cs) |->
        IF i \in Range(q) /\ Has(c, cs[i].key)
        THEN [cs[i] EXCEPT !.outcomes = Append(@, Resolved(Get(c, cs[i].key)))]
        ELSE cs[i]]

\* the loop of resolveLoaders() after its await
ResolveLoaders(cs, q, c) ==
    [i \in 1..Len(cs) |->
        IF i \in Range(q)
        THEN [cs[i] EXCEPT !.outcomes = Append(@, Resolved(Get(c, cs[i].key)))]
        ELSE cs[i]]

RejectLoadersFirstOnly(cs, q, e) ==
    [i \in 1..Len(cs) |->
        IF q # <<>> /\ i = q[1]
        THEN [cs[i] EXCEPT !.outcomes = Append(@, Rejected(e))]
        ELSE cs[i]]

\* rejectLoaders(error)
RejectLoaders(cs, q, e) ==
    [i \in 1..Len(cs) |->
        IF i \in Range(q)
        THEN [cs[i] EXCEPT !.outcomes = Append(@, Rejected(e))]
        ELSE cs[i]]

\* if (batchedKeys.length === 0) { ...; return } batcher(batchedKeys): the
\* argument lists the batcher is invoked with by one run of dispatch()
BatcherCalls(batched) == IF batched = <<>> THEN <<>> ELSE <<batched>>

ClearQueueNoop(q) == q

\* state.queue.clear()
ClearQueue(q) == <<>>

ArmAlways(q) == 1

\* if (state.queue.size === 1) queueMicrotask(...): microtasks queued by one add
Arm(q) == IF Len(q) = 1 THEN 1 ELSE 0

\* The batcher's possible results for the keys it was given: an array of at
\* most as many values, or a Map over some of the keys, in any insertion order.
Arrays(r, bk) == {[i \in 1..m |-> ValueOf(r, bk[i])] : m \in 0..Len(bk)}

Injective(s) == \A i, j \in 1..Len(s) : s[i] = s[j] => i = j

MapsOver(r, ks) ==
    {[i \in 1..Len(e) |-> <<e[i], ValueOf(r, e[i])>>] :
        e \in {f \in UNION {[1..m -> ks] : m \in 0..Cardinality(ks)} : Injective(f)}}

NoResults == [type |-> "none", items |-> <<>>, entries |-> <<>>]

BatchResults(r, bk) ==
    {[type |-> "array", items |-> a, entries |-> <<>>] : a \in Arrays(r, bk)}
    \cup {[type |-> "map", items |-> <<>>, entries |-> e] : e \in MapsOver(r, Range(bk))}

Init ==
    /\ cache = EmptyMap
    /\ inflight = EmptyMap
    /\ queue = <<>>
    /\ scheduled = 0
    /\ calls = <<>>
    /\ rounds = <<>>
    /\ onBatchSet \in BOOLEAN

\* The loader: (key) => new Promise((resolve, reject) => { ... })
Load(k) ==
    /\ Len(calls) < MaxCalls
    /\ calls' = Append(calls, [key |-> k, outcomes |-> <<>>])
    /\ queue' = Append(queue, Len(calls) + 1)
    /\ scheduled' = scheduled + Arm(queue')
    /\ UNCHANGED <<cache, inflight, rounds, onBatchSet>>

\* One run of dispatch().  re is the keys the user's callbacks (onBatch, the
\* batcher) load while they run: those calls are added after state.queue was
\* cleared.
Dispatch(re) ==
    /\ scheduled > 0
    /\ Len(calls) + Len(re) <= MaxCalls
    /\ LET q == queue
           id == Len(rounds) + 1
           req == RequestedKeys(calls, q)
           cached == CachedKeys(req, cache)
           infl == InflightKeys(req, cache, inflight)
           batched == BatchedKeys(req, cache, inflight)
           info == OnBatchInfo(onBatchSet, req, cached, infl, batched)
           q2 == [i \in 1..Len(re) |-> Len(calls) + i]
           round == [queue |-> q, requestedKeys |-> req, cachedKeys |-> cached,
                     inflightKeys |-> infl, batchedKeys |-> batched,
                     onBatch |-> info,
                     batcherArgs |-> BatcherCalls(batched),
                     cacheAt |-> cache, inflightAt |-> inflight,
                     settledBefore |->
                         {b \in 1..Len(rounds) : rounds[b].outcome # "none"},
                     phase |-> IF batched = <<>> THEN "awaiting" ELSE "fetching",
                     awaited |-> IF batched = <<>>
                                 THEN AwaitInflight(calls, q, inflight) ELSE {},
                     outcome |-> "none", results |-> NoResults, error |-> Undefined]
       IN /\ (re # <<>> => (info # <<>> \/ batched # <<>>))
          /\ calls' = calls \o [i \in 1..Len(re) |-> [key |-> re[i], outcomes |-> <<>>]]
          /\ queue' = ClearQueue(q) \o q2
          /\ scheduled' = scheduled - 1 + (IF re = <<>> THEN 0 ELSE Arm(queue'))
          /\ inflight' = SetInflight(inflight, batched, id)
          /\ rounds' = Append(rounds, round)
    /\ UNCHANGED <<cache, onBatchSet>>

\* The .then handler of the batcher's promise: the batch of round r succeeded.
SettleOk(r, res) ==
    /\ rounds[r].phase = "fetching"
    /\ LET bk == rounds[r].batchedKeys
           inf2 == ClearInflight(inflight, bk)
       IN /\ cache' = CacheResults(cache, bk, res)
          /\ inflight' = inf2
          /\ rounds' = [rounds EXCEPT ![r].phase = "awaiting",
                                      ![r].outcome = "ok",
                                      ![r].results = res,
                                      ![r].awaited = AwaitInflight(calls, rounds[r].queue, inf2)]
    /\ UNCHANGED <<queue, scheduled, calls, onBatchSet>>

\* The .catch handler: the batch of round r failed with e.
SettleFail(r, e) ==
    /\ rounds[r].phase = "fetching"
    /\ inflight' = ClearInflight(inflight, rounds[r].batchedKeys)
    /\ calls' = RejectLoaders(calls, rounds[r].queue, e)
    /\ rounds' = [rounds EXCEPT ![r].phase = "done",
                                ![r].outcome = "failed",
                                ![r].error = e]
    /\ UNCHANGED <<cache, queue, scheduled, onBatchSet>>

\* resolveLoaders() of round r resumes once every promise it awaits has settled.
Resume(r) ==
    /\ rounds[r].phase = "awaiting"
    /\ \A b \in rounds[r].awaited : rounds[b].phase # "fetching"
    /\ calls' = ResolveLoaders(calls, rounds[r].queue, cache)
    /\ rounds' = [rounds EXCEPT ![r].phase = "done"]
    /\ UNCHANGED <<cache, inflight, queue, scheduled, onBatchSet>>

Reentrant == {<<>>} \cup {<<k>> : k \in Keys}

Next ==
    \/ \E k \in Keys : Load(k)
    \/ \E re \in Reentrant : Dispatch(re)
    \/ \E r \in 1..Len(rounds) : \E res \in BatchResults(r, rounds[r].batchedKeys) : SettleOk(r, res)
    \/ \E r \in 1..Len(rounds) : SettleFail(r, ErrorOf(r))
    \/ \E r \in 1..Len(rounds) : Resume(r)

Spec == Init /\ [][Next]_vars

\* A loader built with options.cacheMap shares its cache with the host, which
\* may write an entry of its own at any time between two handlers.
\* Its values are told apart from the values of every batch.
HostValue(k) == <<0, k>>

CacheMapSet(k) ==
    /\ ~Has(cache, k)
    /\ Cardinality({h \in DOMAIN cache : cache[h] = HostValue(h)}) < MaxHostWrites
    /\ cache' = [h \in DOMAIN cache \cup {k} |-> IF h = k THEN HostValue(k) ELSE cache[h]]
    /\ UNCHANGED <<inflight, queue, scheduled, calls, rounds, onBatchSet>>

HostNext ==
    \/ Next
    \/ \E k \in Keys : CacheMapSet(k)

HostSpec == Init /\ [][HostNext]_vars

\* The event loop runs every queued microtask (a scheduled dispatch, the
\* continuation of resolveLoaders), and every batch the batcher started
\* settles.
FairSpec ==
    /\ Spec
    /\ WF_vars(\E re \in Reentrant : Dispatch(re))
    /\ WF_vars(\E r \in 1..Len(rounds) :
                  \/ \E res \in BatchResults(r, rounds[r].batchedKeys) : SettleOk(r, res)
                  \/ SettleFail(r, ErrorOf(r)))
    /\ WF_vars(\E r \in 1..Len(rounds) : Resume(r))

(***************************************************************************)
(* Properties.  A round is one run of dispatch(); its record keeps what    *)
(* the run saw and did: the calls it drained, the cache and the in-flight  *)
(* map it classified against, the argument of onBatch and of the batcher.  *)
(***************************************************************************)

Rounds == 1..Len(rounds)

\* the calls drained by round r, and their keys in enqueue order
CallsOf(r) == Range(rounds[r].queue)
KeysOf(r) == [i \in 1..Len(rounds[r].queue) |-> calls[rounds[r].queue[i]].key]

Settled(c) == calls[c].outcomes # <<>>

FirstAt(s, x) == CHOOSE i \in 1..Len(s) : s[i] = x /\ \A j \in 1..(i - 1) : s[j] # x

\* the value the successful batch of round r produced for key k
ResultFor(r, k) ==
    LET res == rounds[r].results
        bk == rounds[r].batchedKeys
        at == {i \in 1..Len(bk) : bk[i] = k /\ i <= Len(res.items)}
        en == {i \in 1..Len(res.entries) : res.entries[i][1] = k}
    IN IF res.type = "array"
       THEN IF at = {} THEN Undefined ELSE res.items[CHOOSE i \in at : TRUE]
       ELSE IF en = {} THEN Undefined ELSE res.entries[CHOOSE i \in en : TRUE][2]

\* C1: every run of dispatch() invokes the batcher at most once; it invokes
\* it exactly when some requested key is neither cached nor in flight at
\* dispatch time, and then with exactly those keys, each once, in the order
\* of their first occurrence among the round's calls.
C1_BatcherOncePerRound ==
    \A r \in Rounds :
        LET R == rounds[r]
            ks == KeysOf(r)
            new == {k \in Range(ks) : ~Has(R.cacheAt, k) /\ ~Has(R.inflightAt, k)}
        IN /\ Len(R.batcherArgs) <= 1
           /\ (new = {}) <=> (R.batcherArgs = <<>>)
           /\ \A n \in 1..Len(R.batcherArgs) :
                 LET arg == R.batcherArgs[n]
                 IN /\ Range(arg) = new
                    /\ Injective(arg)
                    /\ \A i, j \in 1..Len(arg) :
                          i < j => FirstAt(ks, arg[i]) < FirstAt(ks, arg[j])

\* a round whose calls repeat a key and whose batch is not in sorted order
C1_Witness ==
    \E r \in Rounds :
        /\ KeysOf(r) = <<"b", "a", "b">>
        /\ rounds[r].batcherArgs = << <<"b", "a">> >>

\* C2: when the batch of a round fails, a call of that round whose key was
\* in the cache at dispatch time is resolved with the cached value and is not
\* failed.
C2_CachedCallUnaffected ==
    \A r \in Rounds : \A c \in CallsOf(r) :
        ( /\ rounds[r].outcome = "failed"
          /\ Has(rounds[r].cacheAt, calls[c].key)
          /\ Settled(c) )
            => calls[c].outcomes = <<Resolved(rounds[r].cacheAt[calls[c].key])>>

\* C3: a call dispatched while its key is in flight for an earlier round's
\* batch fails with that batch's error when that batch fails.
C3_JoinerFails ==
    \A r \in Rounds : \A c \in CallsOf(r) :
        LET R == rounds[r]
            k == calls[c].key
        IN (~Has(R.cacheAt, k) /\ Has(R.inflightAt, k))
            => LET b == R.inflightAt[k]
               IN (rounds[b].outcome = "failed" /\ Settled(c))
                    => calls[c].outcomes = <<Rejected(rounds[b].error)>>

\* C4: when a call for x is dispatched in round r1, a later round r2 sees x in
\* flight for r1's batch, and that batch succeeds, then both calls resolve to
\* the same value and no round from r1 on but r1 invokes the batcher with x.
C4_InflightJoin ==
    \A r1 \in Rounds : \A r2 \in Rounds : \A x \in Keys :
        ( /\ x \in Range(rounds[r1].batchedKeys)
          /\ Has(rounds[r2].inflightAt, x)
          /\ rounds[r2].inflightAt[x] = r1
          /\ rounds[r1].outcome = "ok" )
        => /\ \A c1 \in CallsOf(r1) : \A c2 \in CallsOf(r2) :
                (calls[c1].key = x /\ calls[c2].key = x /\ Settled(c1) /\ Settled(c2))
                    => /\ calls[c1].outcomes = <<Resolved(ResultFor(r1, x))>>
                       /\ calls[c2].outcomes = calls[c1].outcomes
           /\ \A s \in Rounds : \A n \in 1..Len(rounds[s].batcherArgs) :
                (s > r1) => x \notin Range(rounds[s].batcherArgs[n])

\* C5: once the batch of round r has succeeded with value v for key k, every
\* call for k dispatched afterwards resolves to v, its round reports k in
\* cachedKeys, and no later round invokes the batcher with k.
C5_CacheRoundTrip ==
    \A r \in Rounds : \A s \in Rounds : \A k \in Keys :
        ( /\ rounds[r].outcome = "ok"
          /\ k \in Range(rounds[r].batchedKeys)
          /\ r \in rounds[s].settledBefore )
        => /\ \A n \in 1..Len(rounds[s].batcherArgs) :
                k \notin Range(rounds[s].batcherArgs[n])
           /\ \A c \in CallsOf(s) :
                calls[c].key = k
                    => /\ k \in Range(rounds[s].cachedKeys)
                       /\ Settled(c) => calls[c].outcomes = <<Resolved(ResultFor(r, k))>>

\* C6: when the batch of a round fails with e, every call of the round whose
\* key was batched fails with e, and a batched key is in the cache afterwards
\* only if a later round fetched it again with success.
C6_FailureFanOut ==
    \A r \in Rounds :
        rounds[r].outcome = "failed"
            => /\ rounds[r].error = ErrorOf(r)
               /\ \A c \in CallsOf(r) :
                    calls[c].key \in Range(rounds[r].batchedKeys)
                        => calls[c].outcomes = <<Rejected(ErrorOf(r))>>
               /\ \A k \in Range(rounds[r].batchedKeys) :
                    Has(cache, k)
                        => \E s \in Rounds :
                              /\ s > r
                              /\ rounds[s].outcome = "ok"
                              /\ k \in Range(rounds[s].batchedKeys)

\* a failed batch of two keys whose calls were both rejected
C6_Witness ==
    \E r \in Rounds :
        /\ rounds[r].outcome = "failed"
        /\ Len(rounds[r].batchedKeys) = 2
        /\ Len(rounds[r].queue) = 3
        /\ \A c \in CallsOf(r) : calls[c].outcomes = <<Rejected(ErrorOf(r))>>

\* C7: after the batch of round r with key k has failed, k is neither cached
\* nor in flight until a round dispatched afterwards holds a call for k; the
\* first such round invokes the batcher with k; and the batcher is invoked
\* with k only by rounds that hold a call for k.
C7_RetryOnDemand ==
    \A r \in Rounds : \A k \in Range(rounds[r].batchedKeys) :
        rounds[r].outcome = "failed"
            => LET after == {s \in Rounds : r \in rounds[s].settledBefore
                                            /\ k \in Range(KeysOf(s))}
               IN /\ after = {} => (~Has(cache, k) /\ ~Has(inflight, k))
                  /\ \A s \in after :
                        (\A t \in after : s <= t)
                            => /\ Len(rounds[s].batcherArgs) = 1
                               /\ k \in Range(rounds[s].batcherArgs[1])
                  /\ \A s \in Rounds : \A n \in 1..Len(rounds[s].batcherArgs) :
                        k \in Range(rounds[s].batcherArgs[n]) => k \in Range(KeysOf(s))

\* a key whose batch failed and which a later round fetched again
C7_Witness ==
    \E r \in Rounds : \E s \in Rounds : \E k \in Keys :
        /\ rounds[r].outcome = "failed"
        /\ k \in Range(rounds[r].batchedKeys)
        /\ r \in rounds[s].settledBefore
        /\ rounds[s].batcherArgs = << <<k>> >>

\* C8: when the batcher returns a Map, a call for a batched key resolves to
\* the Map's value for the key if the Map has the key, whatever the order of
\* the Map's entries, and to undefined if it has not; it never fails.
C8_KeyedResults ==
    \A r \in Rounds : \A c \in CallsOf(r) :
        LET res == rounds[r].results
            k == calls[c].key
            en == {i \in 1..Len(res.entries) : res.entries[i][1] = k}
        IN ( /\ rounds[r].outcome = "ok"
             /\ res.type = "map"
             /\ k \in Range(rounds[r].batchedKeys)
             /\ Settled(c) )
           => /\ en = {} => calls[c].outcomes = <<Resolved(Undefined)>>
              /\ \A i \in en : calls[c].outcomes = <<Resolved(res.entries[i][2])>>

\* a Map that lacks the first batched key and has the second as its first
\* entry, and the round's calls resolved
C8_Witness ==
    \E r \in Rounds :
        LET res == rounds[r].results
            bk == rounds[r].batchedKeys
        IN /\ res.type = "map"
           /\ Len(bk) = 2
           /\ Len(res.entries) = 1
           /\ res.entries[1][1] = bk[2]
           /\ rounds[r].phase = "done"
           /\ \E c \in CallsOf(r) : calls[c].outcomes = <<Resolved(Undefined)>>
           /\ \E c \in CallsOf(r) : calls[c].outcomes = <<Resolved(ValueOf(r, bk[2]))>>

\* C9: with onBatch configured, every run of dispatch() invokes it exactly
\* once, also when nothing is batched, and its requestedKeys is the keys of
\* the round's calls in enqueue order, duplicates kept.
C9_OnBatchOncePerDispatch ==
    onBatchSet
        => \A r \in Rounds :
              /\ Len(rounds[r].onBatch) = 1
              /\ rounds[r].onBatch[1].requestedKeys = KeysOf(r)

\* a round with a repeated key and nothing to batch, reported to onBatch
C9_Witness ==
    /\ onBatchSet
    /\ \E r \in Rounds :
          /\ KeysOf(r) = <<"a", "a">>
          /\ rounds[r].batchedKeys = <<>>
          /\ Len(rounds[r].onBatch) = 1
          /\ rounds[r].onBatch[1].batchedKeys = <<>>

\* C10: one dispatch is scheduled exactly when the queue is not empty, none
\* when it is empty; every call is in the queue or was drained by exactly
\* one round, never both, and every round drained at least one call.
C10_SchedulerArming ==
    /\ scheduled = (IF queue = <<>> THEN 0 ELSE 1)
    /\ Injective(queue)
    /\ \A r \in Rounds : rounds[r].queue # <<>> /\ Injective(rounds[r].queue)
    /\ \A c \in 1..Len(calls) :
          Cardinality({r \in Rounds : c \in CallsOf(r)})
              + (IF c \in Range(queue) THEN 1 ELSE 0) = 1

\* a second round armed by the first call after a dispatch, two calls queued
C10_Witness ==
    /\ Len(rounds) >= 1
    /\ Len(queue) = 2
    /\ scheduled = 1

\* C11: whenever a call is resolved or rejected, its key is not in the
\* in-flight map at that moment.
C11_NoSettleWhileInflight ==
    [][\A c \in 1..Len(calls) :
          calls'[c].outcomes # calls[c].outcomes => ~Has(inflight', calls[c].key)]_vars

\* C12: the batcher is never invoked with a key that is cached or in flight
\* when it is invoked, and at most one unsettled batch holds a given key.
C12_SingleFlight ==
    /\ \A r \in Rounds : \A n \in 1..Len(rounds[r].batcherArgs) :
          \A k \in Range(rounds[r].batcherArgs[n]) :
              ~Has(rounds[r].cacheAt, k) /\ ~Has(rounds[r].inflightAt, k)
    /\ \A k \in Keys :
          Cardinality({r \in Rounds : /\ rounds[r].phase = "fetching"
                                       /\ \E n \in 1..Len(rounds[r].batcherArgs) :
                                             k \in Range(rounds[r].batcherArgs[n])}) <= 1

\* two rounds requested the key while its batch was unsettled, one fetch
C12_Witness ==
    \E r \in Rounds : \E s \in Rounds : \E k \in Keys :
        /\ r < s
        /\ rounds[r].phase = "fetching"
        /\ rounds[r].batcherArgs = << <<k>> >>
        /\ k \in Range(KeysOf(s))
        /\ rounds[s].phase = "fetching"

\* C13: a key is in the in-flight map exactly while a batch that holds it is
\* unsettled, its entry is that batch's promise (one promise for all keys of
\* a batch), and the keys of a batch that succeeded are in the cache.
C13_InflightLifecycle ==
    /\ \A k \in Keys :
          Has(inflight, k) <=> \E r \in Rounds : /\ rounds[r].phase = "fetching"
                                                   /\ k \in Range(rounds[r].batchedKeys)
    /\ \A r \in Rounds : \A k \in Range(rounds[r].batchedKeys) :
          /\ rounds[r].phase = "fetching" => (Has(inflight, k) /\ inflight[k] = r)
          /\ rounds[r].outcome = "ok" => Has(cache, k)

\* a batch of two keys in flight, and another batch settled before
C13_Witness ==
    \E r \in Rounds : \E s \in Rounds :
        /\ rounds[r].outcome # "none"
        /\ rounds[s].phase = "fetching"
        /\ Len(rounds[s].batchedKeys) = 2
        /\ DOMAIN inflight = Range(rounds[s].batchedKeys)

\* C14: the cache changes only in the step in which a batch succeeds, only
\* on that batch's keys, and an entry once written keeps its value; every
\* entry is the result of the one successful batch that held its key.
C14_CacheWriteOnce ==
    /\ [][ /\ \A k \in DOMAIN cache : Has(cache', k) /\ cache'[k] = cache[k]
           /\ cache' # cache =>
                \E r \in Rounds :
                    /\ rounds[r].outcome = "none"
                    /\ rounds'[r].outcome = "ok"
                    /\ DOMAIN cache' \ DOMAIN cache = Range(rounds[r].batchedKeys) ]_vars
    /\ [](\A k \in DOMAIN cache :
            \E r \in Rounds : /\ rounds[r].outcome = "ok"
                               /\ k \in Range(rounds[r].batchedKeys)
                               /\ cache[k] = ResultFor(r, k))

\* two entries written by two batches, and a third batch that failed
C14_Witness ==
    /\ DOMAIN cache = {"a", "b"}
    /\ cache["a"] = ValueOf(1, "a")
    /\ cache["b"] = ValueOf(3, "b")
    /\ rounds[2].outcome = "failed"

\* C15: a run of dispatch() drains every queued call, in order, and
\* classifies their keys against the cache and the in-flight map as they are
\* when it runs; the calls made while it runs are not in its round: they are
\* what the queue holds afterwards, with one dispatch scheduled for them.
\* Every call is queued or was drained by exactly one round, and a queued
\* call has a dispatch scheduled.
C15_RoundMembership ==
    /\ [][Len(rounds') > Len(rounds) =>
            LET R == rounds'[Len(rounds')]
                made == {c \in 1..Len(calls') : c > Len(calls)}
                req == RequestedKeys(calls, queue)
            IN /\ R.queue = queue
               /\ Range(queue') = made
               /\ made # {} => scheduled' = 1
               /\ \A k \in Keys :
                     /\ k \in Range(R.cachedKeys) <=> (k \in Range(req) /\ Has(cache, k))
                     /\ k \in Range(R.inflightKeys) <=>
                            (k \in Range(req) /\ ~Has(cache, k) /\ Has(inflight, k))
                     /\ k \in Range(R.batchedKeys) <=>
                            (k \in Range(req) /\ ~Has(cache, k) /\ ~Has(inflight, k)) ]_vars
    /\ [](\A c \in 1..Len(calls) :
            /\ Cardinality({r \in Rounds : c \in CallsOf(r)})
                  + (IF c \in Range(queue) THEN 1 ELSE 0) = 1
            /\ c \in Range(queue) => scheduled >= 1)

\* the call made next after round 1 drained the queue, for a key round 1
\* batched, was drained by round 2 and classified in flight there
C15_Witness ==
    /\ Len(rounds) >= 2
    /\ \E c \in CallsOf(2) :
          /\ c = Len(rounds[1].queue) + 1
          /\ calls[c].key \in Range(rounds[1].batchedKeys)
          /\ calls[c].key \in Range(rounds[2].inflightKeys)

\* C16: when every scheduled dispatch runs and every batch settles, every
\* loader call made is eventually settled, whether its round fetched, found
\* everything cached, or joined the batches of other rounds: from every
\* moment on, a moment comes when all the calls made until then are settled.
C16_EveryCallSettles == []<>(\A c \in 1..Len(calls) : Settled(c))

\* a round that fetched nothing and awaited the batch of another round has
\* settled its calls
C16_Witness ==
    \E r \in Rounds :
        /\ rounds[r].batchedKeys = <<>>
        /\ rounds[r].awaited # {}
        /\ rounds[r].phase = "done"
        /\ \A c \in CallsOf(r) : Settled(c)

\* C17: a call has one of its two continuations invoked, once, by the round
\* that drained it, in the step that finishes that round: a queued call and
\* a call of an unfinished round have none invoked, a call of a finished
\* round exactly one, and no step invokes a continuation of a call of
\* another round or of a call already settled.
C17_SettledOnceByOwnRound ==
    /\ [][\A c \in 1..Len(calls) :
            calls'[c].outcomes # calls[c].outcomes =>
                /\ calls[c].outcomes = <<>>
                /\ Len(calls'[c].outcomes) = 1
                /\ \E r \in Rounds :
                      /\ c \in CallsOf(r)
                      /\ rounds[r].phase # "done"
                      /\ rounds'[r].phase = "done"]_vars
    /\ [](\A c \in 1..Len(calls) :
            /\ c \in Range(queue) => calls[c].outcomes = <<>>
            /\ \A r \in Rounds :
                  c \in CallsOf(r) =>
                      Len(calls[c].outcomes) = (IF rounds[r].phase = "done" THEN 1 ELSE 0))

\* a round whose batch failed and a round whose batch succeeded have both
\* finished, and each of their calls has exactly one continuation invoked
C17_Witness ==
    \E r1, r2 \in Rounds :
        /\ rounds[r1].outcome = "failed" /\ rounds[r1].phase = "done"
        /\ rounds[r2].outcome = "ok" /\ rounds[r2].phase = "done"
        /\ \A c \in CallsOf(r1) \cup CallsOf(r2) : Len(calls[c].outcomes) = 1
        /\ \E c \in CallsOf(r1) : calls[c].outcomes[1].kind = "reject"
        /\ \E c \in CallsOf(r2) : calls[c].outcomes[1].kind = "resolve"

\* C18: the cache starts as the loader's own empty map, and in every state no
\* key is both in the cache and in the in-flight map.
C18_CacheInflightDisjoint == DOMAIN cache \cap DOMAIN inflight = {}

\* one key is cached while the other is in flight
C18_Witness ==
    /\ DOMAIN cache # {}
    /\ DOMAIN inflight # {}
    /\ \E r \in Rounds : rounds[r].cachedKeys # <<>> /\ rounds[r].phase = "fetching"

\* C19: in every run of dispatch(), with the loader's own cache or one the
\* host supplied and writes to, no key is listed twice in cachedKeys,
\* inflightKeys or batchedKeys, no key is in two of them, together they hold
\* exactly the requested keys, and a requested key that is both in the cache
\* and in the in-flight map is in cachedKeys.
C19_ClassificationPartition ==
    \A r \in Rounds :
        LET R == rounds[r]
        IN /\ Injective(R.cachedKeys) /\ Injective(R.inflightKeys) /\ Injective(R.batchedKeys)
           /\ Range(R.cachedKeys) \cap Range(R.inflightKeys) = {}
           /\ Range(R.cachedKeys) \cap Range(R.batchedKeys) = {}
           /\ Range(R.inflightKeys) \cap Range(R.batchedKeys) = {}
           /\ Range(R.cachedKeys) \cup Range(R.inflightKeys) \cup Range(R.batchedKeys)
                 = Range(R.requestedKeys)
           /\ \A k \in Range(R.requestedKeys) :
                 Has(R.cacheAt, k) /\ Has(R.inflightAt, k) => k \in Range(R.cachedKeys)
           /\ R.onBatch # <<>> =>
                 /\ R.onBatch[1].cachedKeys = R.cachedKeys
                 /\ R.onBatch[1].inflightKeys = R.inflightKeys
                 /\ R.onBatch[1].batchedKeys = R.batchedKeys

\* a round requested a key that was both in the cache and in flight, along
\* with a key that was in neither
C19_Witness ==
    \E r \in Rounds :
        /\ \E k \in Range(rounds[r].requestedKeys) :
              Has(rounds[r].cacheAt, k) /\ Has(rounds[r].inflightAt, k)
        /\ rounds[r].batchedKeys # <<>>
        /\ rounds[r].onBatch # <<>>

\* the batched keys of round r that its array result has no element for
TrailingKeys(r) ==
    {rounds[r].batchedKeys[i] :
        i \in (Len(rounds[r].results.items) + 1)..Len(rounds[r].batchedKeys)}

\* C20: a batch that succeeds with an array shorter than its keys is a
\* success: none of the round's calls is rejected, the round's calls for the
\* keys past the end of the array are resolved with undefined, those keys are
\* in the cache with the value undefined, and every round dispatched after the
\* batch settled lists such a key, when requested, as cached and never hands
\* it to the batcher.
C20_ShortArrayCachesUndefined ==
    \A r \in Rounds :
        (rounds[r].outcome = "ok" /\ rounds[r].results.type = "array") =>
            /\ \A c \in CallsOf(r) :
                  \A i \in 1..Len(calls[c].outcomes) : calls[c].outcomes[i].kind = "resolve"
            /\ \A k \in TrailingKeys(r) :
                  /\ Has(cache, k) /\ cache[k] = Undefined
                  /\ rounds[r].phase = "done" =>
                        \A c \in CallsOf(r) :
                            calls[c].key = k => calls[c].outcomes = <<Resolved(Undefined)>>
                  /\ \A s \in Rounds :
                        r \in rounds[s].settledBefore =>
                            /\ k \in Range(rounds[s].requestedKeys)
                                  => k \in Range(rounds[s].cachedKeys)
                            /\ \A i \in 1..Len(rounds[s].batcherArgs) :
                                  k \notin Range(rounds[s].batcherArgs[i])

\* a batch for two keys succeeded with a one-element array, its call for the
\* second key was resolved with undefined, and a later round found the key cached
C20_Witness ==
    \E r, s \in Rounds :
        /\ rounds[r].outcome = "ok" /\ rounds[r].results.type = "array"
        /\ Len(rounds[r].results.items) = 1
        /\ rounds[r].phase = "done"
        /\ \E k \in TrailingKeys(r) :
              /\ \E c \in CallsOf(r) :
                    calls[c].key = k /\ calls[c].outcomes = <<Resolved(Undefined)>>
              /\ r \in rounds[s].settledBefore
              /\ k \in Range(rounds[s].cachedKeys)

====
